---- MODULE Spec2Model ----
(***************************************************************************)
(* A model of gdb-ghcrts.py, a gdb plugin that introspects the GHC runtime *)
(* of a stopped process: the thread enumerator (all_tsos, running_tsos),   *)
(* the stack walker (TSO.walk_stack, Closure.frame_size), the two commands *)
(* (info tsos, info tsoprofile), the symbol decoder (zdecode) and the name *)
(* resolver (Closure.funcname and its helpers).                            *)
(*                                                                         *)
(* Python strings are TLA+ strings; Python generators are modelled by the  *)
(* position of their consumer's loop, one action per loop iteration.       *)
(***************************************************************************)
EXTENDS Integers, Sequences, FiniteSets, TLC

VARIABLES
    \* ---- zdecode(s) ----
    zin,        \* the argument of zdecode
    zs,         \* the local s: the input not yet consumed
    zres,       \* the local res
    zpc,        \* "loop" (at the while test) or "returned"
    ziter,      \* loop iterations completed
    zret,       \* the returned value
    \* ---- Closure.funcname(pretty) ----
    ndbg,       \* what gdb answers for the frame's code address
    npretty,    \* the argument pretty
    npc,        \* "call" or "returned"
    nret,       \* the returned name
    \* ---- the target image, as far as the plugin has read it ----
    n_capabilities,   \* the value of 'n_capabilities'
    n_generations,    \* the value of 'RtsFlags.GcFlags.generations'
    run_queue_hd,     \* capabilities[i].run_queue_hd
    rCurrentTSO,      \* capabilities[i].r.rCurrentTSO
    gen_threads,      \* generations[i].threads
    tso_link,         \* StgTSO._link
    global_link,      \* StgTSO.global_link
    tso_state,        \* StgTSO.what_next and why_blocked
    stackobj,         \* StgTSO.stackobj: sp, stack and stack_size
    stackmem,         \* the words of each stack, read as frames
    symtab,           \* gdb's debug information per code address
    world,            \* the values the image's fields range over
    \* ---- all_tsos() and running_tsos(), as generators ----
    ephase,     \* "caps", "gens" or "done": the for loop being run
    ei,         \* the loop index i, from 1
    et,         \* the local t, an address
    epos,       \* "head", "test", "yielded", "resume" or "done"
    yielded,    \* the threads yielded so far, in order
    nchain,     \* threads yielded from the chain being followed
    \* ---- TSO.walk_stack(), as a generator ----
    wt,         \* self: the thread whose stack is walked
    wsp,        \* the local sp, a word address
    wpos,       \* "start" (not run yet) or "suspended" (at the yield)
    walked,     \* the frames yielded so far: address and content
    sizes,      \* the results of frame_size() so far, in order
    \* ---- the consumer of a generator: a command's invoke ----
    cpc,        \* where the consumer is: "for" (asks all_tsos for the next
                \* thread), "walk" (asks walk_stack for the next frame),
                \* "frame" (got a frame), "endwalk" (the walk is over),
                \* "except" (the walk raised), "done", "raised"
    cexc,       \* the exception in flight, "" when none
    args,       \* the command's options
    out,        \* the lines printed by the invocation, in order
    pstack,     \* InfoTsoProfile.invoke's local stack
    prev,       \* InfoTsoProfile.invoke's local prev
    funcname_cache,   \* Closure.funcname_cache, a class attribute
    ninvoke,    \* invocations of the command so far
    seen,       \* the names cached_funcname returned in this walk, in order
    lastpc,     \* the code address of the last cached_funcname call
    tdone       \* how the current thread ended: "", "profile" or "error"

zvars == <<zin, zs, zres, zpc, ziter, zret>>
nvars == <<ndbg, npretty, npc, nret>>
ivars == <<n_capabilities, n_generations, run_queue_hd, rCurrentTSO,
           gen_threads, tso_link, global_link, tso_state, stackobj,
           stackmem, symtab, world>>
evars == <<ephase, ei, et, epos, yielded, nchain>>
wvars == <<wt, wsp, wpos, walked, sizes>>
cvars == <<cpc, cexc>>
pvars == <<args, out, pstack, prev, funcname_cache, ninvoke, seen, lastpc, tdone>>

vars == <<zvars, nvars, ivars, evars, wvars, cvars, pvars>>

(***************************************************************************)
(* The target image.  The plugin only reads it, so a field is given its    *)
(* value when the plugin first reads it and keeps it from then on: Unread  *)
(* marks a field not read yet, <<v>> one that was read as v.               *)
(***************************************************************************)
Unread == <<>>

\* the values a field can be read as: any of S the first time, the same after
Choices(cell, S) == IF cell = Unread THEN S ELSE {cell[1]}

\* &stg_END_TSO_QUEUE_closure
END_TSO_QUEUE == 0

\* the number of thread-control records of the image, at addresses 1..NumTSO
NumTSO == 2
\* the number of capabilities and of generations
NCaps == 2
NGens == 2

TSOs == 1..NumTSO
Addrs == TSOs \cup {END_TSO_QUEUE}

IFresh ==
    /\ run_queue_hd = [i \in 1..NCaps |-> Unread]
    /\ rCurrentTSO = [i \in 1..NCaps |-> Unread]
    /\ gen_threads = [i \in 1..NGens |-> Unread]
    /\ tso_link = [t \in TSOs |-> Unread]
    /\ global_link = [t \in TSOs |-> Unread]
    /\ tso_state = [t \in TSOs |-> Unread]
    /\ stackobj = [t \in TSOs \cup {END_TSO_QUEUE} |-> Unread]
    /\ stackmem = [t \in TSOs \cup {END_TSO_QUEUE} |-> <<>>]
    /\ symtab = <<>>

IIdle ==
    /\ n_capabilities = 0
    /\ n_generations = 0
    /\ world = <<>>
    /\ IFresh

EIdle ==
    /\ ephase = "done"
    /\ ei = 0
    /\ et = END_TSO_QUEUE
    /\ epos = "done"
    /\ yielded = <<>>
    /\ nchain = 0

WIdle ==
    /\ wt = END_TSO_QUEUE
    /\ wsp = 0
    /\ wpos = "start"
    /\ walked = <<>>
    /\ sizes = <<>>

CIdle ==
    /\ cpc = "idle"
    /\ cexc = ""

PIdle ==
    /\ args = <<>>
    /\ out = <<>>
    /\ pstack = <<>>
    /\ prev = "<None>"
    /\ funcname_cache = <<>>
    /\ ninvoke = 0
    /\ seen = <<>>
    /\ lastpc = 0
    /\ tdone = ""

(***************************************************************************)
(* Python string primitives                                                *)
(***************************************************************************)
Min(a, b) == IF a <= b THEN a ELSE b

\* s[a:b] for 0 <= a, 0 <= b (indices 0-based, end exclusive, clamped)
Slice(s, a, b) ==
    IF a >= Len(s) \/ b <= a THEN "" ELSE SubSeq(s, a + 1, Min(b, Len(s)))

\* s[a:]
SliceFrom(s, a) == Slice(s, a, Len(s))

\* the character s[i] (0-based)
CharAt(s, i) == SubSeq(s, i + 1, i + 1)

\* s.startswith(p)
StartsWith(s, p) == Len(p) <= Len(s) /\ SubSeq(s, 1, Len(p)) = p

\* s.endswith(p)
EndsWith(s, p) ==
    Len(p) <= Len(s) /\ SubSeq(s, Len(s) - Len(p) + 1, Len(s)) = p

\* the least element of a non-empty set of integers, or -1
LeastOr(hits) ==
    IF hits = {} THEN -1 ELSE CHOOSE i \in hits : \A j \in hits : i <= j

\* s.find(sub): the lowest 0-based index where sub occurs, or -1
Find(s, sub) ==
    CHOOSE r \in
      { LeastOr(hits) :
          hits \in {{i \in 0..(Len(s) - Len(sub)) : Slice(s, i, i + Len(sub)) = sub}} }
      : TRUE

\* sub in s
Contains(s, sub) == Find(s, sub) >= 0

(***************************************************************************)
(* zdecode and its table                                                   *)
(***************************************************************************)
ztrans ==
    ("ZC" :> "ZC") @@ ("ZL" :> "(") @@ ("ZM" :> "[") @@ ("ZN" :> "]") @@
    ("ZR" :> ")") @@ ("ZZ" :> "Z") @@ ("za" :> "&") @@ ("zb" :> "|") @@
    ("zd" :> "$") @@ ("ze" :> "=") @@ ("zg" :> ">") @@ ("zh" :> "#") @@
    ("zi" :> ".") @@ ("zl" :> "<") @@ ("zm" :> "-") @@ ("zn" :> "!") @@
    ("zp" :> "+") @@ ("zq" :> "'") @@ ("zs" :> "/") @@ ("zt" :> "*") @@
    ("zu" :> "_") @@ ("zz" :> "z")

\* ztrans.get(tok, tok)
ZtransGet(tok) == IF tok \in DOMAIN ztrans THEN ztrans[tok] ELSE tok

\* the index chosen by the if/elif chain from idx_z and idx_Z (both not < 0
\* is excluded by the caller)
ZIndex(idx_z, idx_Z) ==
    IF idx_z < 0 THEN idx_Z
    ELSE IF idx_Z < 0 THEN idx_z
    ELSE Min(idx_z, idx_Z)

\* a token that is one character short
ZTokShort(s, idx) == Slice(s, idx, idx + 1)

\* tok = s[idx:idx+2]
ZTok(s, idx) == Slice(s, idx, idx + 2)

\* one evaluation of the while loop of zdecode, from its test
ZdecodeStep ==
    /\ zpc = "loop"
    /\ IF zs = ""
       THEN \* while s: fails; return res
            /\ zpc' = "returned"
            /\ zret' = zres
            /\ UNCHANGED <<zs, zres, ziter>>
       ELSE LET idx_z == Find(zs, "z")
                idx_Z == Find(zs, "Z")
            IN  IF idx_z < 0 /\ idx_Z < 0
                THEN \* res += s; return res
                     /\ zres' = zres \o zs
                     /\ zret' = zres \o zs
                     /\ zpc' = "returned"
                     /\ UNCHANGED <<zs, ziter>>
                ELSE LET idx == ZIndex(idx_z, idx_Z)
                         tok == ZTok(zs, idx)
                     IN  /\ zres' = (zres \o Slice(zs, 0, idx)) \o ZtransGet(tok)
                         /\ zs' = SliceFrom(zs, idx + 2)
                         /\ ziter' = ziter + 1
                         /\ UNCHANGED <<zpc, zret>>
    /\ UNCHANGED <<zin, nvars, ivars, evars, wvars, cvars, pvars>>

\* zdecode(s) as a function: the loop run to its return.  The next
\* iteration's s and res are bound to their values before the loop goes on.
RECURSIVE ZdecodeLoop(_, _)
ZdecodeLoop(s, res) ==
    IF s = "" THEN res
    ELSE LET idx_z == Find(s, "z")
             idx_Z == Find(s, "Z")
         IN  IF idx_z < 0 /\ idx_Z < 0 THEN res \o s
             ELSE LET idx == ZIndex(idx_z, idx_Z)
                  IN  CHOOSE r \in
                        { ZdecodeLoop(s2, res2) :
                            s2 \in {SliceFrom(s, idx + 2)},
                            res2 \in {(res \o Slice(s, 0, idx))
                                          \o ZtransGet(ZTok(s, idx))} } : TRUE

zdecode(s) == ZdecodeLoop(s, "")

ZIdle ==
    /\ zin = ""
    /\ zs = ""
    /\ zres = ""
    /\ zpc = "idle"
    /\ ziter = 0
    /\ zret = ""

NIdle ==
    /\ ndbg = <<>>
    /\ npretty = FALSE
    /\ npc = "idle"
    /\ nret = ""

(***************************************************************************)
(* Function names: pc_funcname, block_funcname, guess_funcname,            *)
(* clean_funcname, pretty_funcname, Closure.funcname                       *)
(*                                                                         *)
(* What gdb answers for one code address is a record:                      *)
(*   block     "raise" (gdb.block_for_pc raised), "none" (it returned      *)
(*             None) or "some"                                             *)
(*   scopes    the function of the block and of each superblock, innermost *)
(*             first; None for a block without function                    *)
(*   infosym   the output of "info symbol", or Raises                      *)
(*   symtab    whether gdb.find_pc_line(pc) has a symtab                   *)
(*   pcline    its line                                                    *)
(*   linetable the line table: for each entry its line and the function of *)
(*             the block of its pc (None, or Raises when the lookup fails) *)
(***************************************************************************)
None == "<None>"
Raises == "<raises>"

\* s.partition(sep): <<before, after>>
PartitionAt(s, sep, i) ==
    IF i < 0 THEN <<s, "">>
    ELSE <<Slice(s, 0, i), SliceFrom(s, i + Len(sep))>>

Partition(s, sep) ==
    CHOOSE r \in { PartitionAt(s, sep, i) : i \in {Find(s, sep)} } : TRUE

\* s.rstrip(chars), chars a set of characters
RECURSIVE RStrip(_, _)
RStrip(s, chars) ==
    IF s # "" /\ CharAt(s, Len(s) - 1) \in chars
    THEN RStrip(Slice(s, 0, Len(s) - 1), chars)
    ELSE s

pc_funcname(infosym) ==
    IF infosym = Raises THEN None
    ELSE IF Contains(infosym, "_info") THEN Partition(infosym, " ")[1]
    ELSE None

\* b.function of the k-th scope
block_funcname(fn) == IF fn # None THEN fn ELSE None

\* the loop of guess_funcname over linetable[k..], with the locals line and f
RECURSIVE GuessLoop(_, _, _, _, _)
GuessLoop(linetable, k, pcline, line, f) ==
    IF k > Len(linetable) THEN f
    ELSE LET l == linetable[k]
             s == IF l.fn = Raises THEN None ELSE l.fn
         IN  IF l.line > pcline
             THEN GuessLoop(linetable, k + 1, pcline, line, f)
             ELSE IF l.line > line /\ s # None
                     /\ Contains(s, "zm") /\ Contains(s, "zi") /\ Contains(s, "_")
                  THEN GuessLoop(linetable, k + 1, pcline, l.line, s)
                  ELSE GuessLoop(linetable, k + 1, pcline, line, f)

guess_funcname(dbg) ==
    IF ~dbg.symtab THEN None
    ELSE GuessLoop(dbg.linetable, 1, dbg.pcline, 0, None)

\* s without the suffix suf, when it ends with it
StripSuffix(s, suf) ==
    IF EndsWith(s, suf) THEN Slice(s, 0, Len(s) - Len(suf)) ELSE s

\* f is never None where the model calls it; each assignment to f is bound
\* before the next statement reads it
clean_funcname(f) ==
    CHOOSE r \in
      { StripSuffix(a, "_info") :
          a \in { StripSuffix(d, "_ret_info") : d \in {zdecode(f)} } } : TRUE

Digits == {"0", "1", "2", "3", "4", "5", "6", "7", "8", "9"}

\* the package and version prefix stripped from a decoded name c
StripPackage(c) ==
    IF Contains(c, "-")
    THEN CHOOSE r \in
           { (RStrip(Partition(p1[1], ".")[1], Digits \cup {"-"}) \o ":") \o p1[2] :
               p1 \in {Partition(c, "_")} } : TRUE
    ELSE c

pretty_funcname(f) ==
    CHOOSE r \in { StripPackage(c) : c \in {clean_funcname(f)} } : TRUE

\* clean = pretty_funcname if pretty else clean_funcname
Clean(pretty, f) == IF pretty THEN pretty_funcname(f) ELSE clean_funcname(f)

\* the while loop over the superblocks: scopes[k..] are the blocks not yet
\* visited; the result is the first function found, or None
RECURSIVE ParentLoop(_, _)
ParentLoop(scopes, k) ==
    IF k > Len(scopes) THEN None
    ELSE IF block_funcname(scopes[k]) # None THEN scopes[k]
    ELSE ParentLoop(scopes, k + 1)

\* funcname with the flat symbol lookup tried before the lexical scopes
FuncnameFlatFirst(dbg, pretty) ==
    LET func == pc_funcname(dbg.infosym)
    IN  IF func # None THEN Clean(pretty, func)
        ELSE IF dbg.block = "some" /\ block_funcname(dbg.scopes[1]) # None
        THEN Clean(pretty, dbg.scopes[1])
        ELSE "??"

\* Closure.funcname(pretty), given what gdb answers for self.pc()
Funcname(dbg, pretty) ==
    LET hasBlock == dbg.block = "some"
        func1 == IF hasBlock THEN block_funcname(dbg.scopes[1]) ELSE None
        parent == IF hasBlock THEN ParentLoop(dbg.scopes, 2) ELSE None
        closure == hasBlock /\ Len(dbg.scopes) >= 2
        func3 == pc_funcname(dbg.infosym)
        func4 == IF pretty /\ func3 = None THEN guess_funcname(dbg) ELSE None
    IN  IF func1 # None THEN Clean(pretty, func1)
        ELSE IF parent # None THEN Clean(pretty, parent) \o ":closure"
        ELSE IF func3 # None
             THEN IF closure THEN Clean(pretty, func3) \o ":closure"
                  ELSE Clean(pretty, func3)
        ELSE IF func4 # None THEN Clean(pretty, func4) \o ":??"
        ELSE "??"

\* one call of funcname
FuncnameCall ==
    /\ npc = "call"
    /\ nret' = Funcname(ndbg, npretty)
    /\ npc' = "returned"
    /\ UNCHANGED <<ndbg, npretty, zvars, ivars, evars, wvars, cvars, pvars>>

\* ---- bounded inputs of funcname ----
MaxScopes == 2
ScopeNames == {None, "base_DataziOldList_sortBy_info", "stg_upd_frame_info"}
InfoSymOutputs ==
    { Raises,
      "No symbol matches 0x4005d0.",
      "main in section .text",
      "timezm1zi9zi3_DataziTimeziClock_getCurrentTime_info + 24 in section .text" }
LineFns == {None, Raises, "main", "aesonzm1zi4_DataziAeson_zdwf_info"}
LineTables ==
    { <<>> } \cup
    { <<[line |-> 3, fn |-> a], [line |-> 5, fn |-> b]>> : a \in LineFns, b \in LineFns }
    \cup
    { <<[line |-> 5, fn |-> "basezm4zi12_GHCziBase_map_info"],
        [line |-> 5, fn |-> "aesonzm1zi4_DataziAeson_zdwf_info"],
        [line |-> 4, fn |-> "aesonzm1zi4_DataziAeson_zdwf_info"]>> }

RECURSIVE SeqsUpTo(_, _)
SeqsUpTo(S, n) ==
    IF n = 0 THEN {<<>>}
    ELSE LET shorter == SeqsUpTo(S, n - 1)
         IN  shorter \cup {Append(q, x) : q \in shorter, x \in S}

DebugInfos ==
    { [block |-> b, scopes |-> sc, infosym |-> i, symtab |-> st,
       pcline |-> pl, linetable |-> lt] :
        b \in {"raise", "none", "some"},
        sc \in SeqsUpTo(ScopeNames, MaxScopes) \ {<<>>},
        i \in InfoSymOutputs, st \in BOOLEAN, pl \in {4, 5},
        lt \in LineTables }

NInit ==
    /\ ndbg \in DebugInfos
    /\ npretty \in BOOLEAN
    /\ npc = "call"
    /\ nret = ""
    /\ ZIdle
    /\ IIdle
    /\ EIdle
    /\ WIdle
    /\ CIdle
    /\ PIdle

NNext == FuncnameCall

SpecName == NInit /\ [][NNext]_vars

\* ---- the tiers of funcname, read off gdb's answers ----
ExactNamed == ndbg.block = "some" /\ ndbg.scopes[1] # None
NamedAncestors ==
    IF ndbg.block = "some"
    THEN {k \in 2..Len(ndbg.scopes) : ndbg.scopes[k] # None}
    ELSE {}
NearestAncestor ==
    ndbg.scopes[CHOOSE k \in NamedAncestors : \A j \in NamedAncestors : k <= j]
ScopeWalked == ndbg.block = "some" /\ Len(ndbg.scopes) >= 2
FlatMatch == ndbg.infosym # Raises /\ Contains(ndbg.infosym, "_info")
FlatName == Partition(ndbg.infosym, " ")[1]
Heuristic == guess_funcname(ndbg)

\* C10: funcname tries the tiers in order and the first success wins: the
\* exact scope's name, else the nearest named ancestor's with ":closure",
\* else the flat symbol with "_info" (":closure" iff an enclosing scope was
\* walked), else, only if pretty, the line-table guess with ":??", else
\* "??"; once the code address is read, whatever gdb's lookups raise, a name
\* is returned.
C10_TierOrder ==
    npc = "returned" =>
        /\ nret # Raises
        /\ nret # None
        /\ IF ExactNamed
           THEN nret = Clean(npretty, ndbg.scopes[1])
           ELSE IF NamedAncestors # {}
           THEN nret = Clean(npretty, NearestAncestor) \o ":closure"
           ELSE IF FlatMatch
           THEN nret = Clean(npretty, FlatName)
                          \o (IF ScopeWalked THEN ":closure" ELSE "")
           ELSE IF npretty /\ Heuristic # None
           THEN nret = Clean(npretty, Heuristic) \o ":??"
           ELSE nret = "??"

\* a named exact scope wins although the flat symbol matches too
C10_Witness ==
    /\ npc = "returned"
    /\ ExactNamed
    /\ FlatMatch
    /\ ~npretty
    /\ nret = "base_Data.OldList_sortBy"

(***************************************************************************)
(* all_tsos(): a generator.  It runs only while its consumer asks for the  *)
(* next thread (cpc = "for").                                              *)
(***************************************************************************)
\* TSO.is_end()
is_end(t) == t = END_TSO_QUEUE

\* the observers' caps
MaxYield == (NCaps + NGens) * NumTSO
MaxChain == NumTSO + 1

\* for i in range(n): the head of source i is read, or the loop ends
EnumHead ==
    /\ cpc = "for"
    /\ epos = "head"
    /\ IF ephase = "caps" /\ ei <= n_capabilities
       THEN \* t = TSO(cap['run_queue_hd'])
            \E h \in Choices(run_queue_hd[ei], Addrs) :
               /\ run_queue_hd' = [run_queue_hd EXCEPT ![ei] = <<h>>]
               /\ et' = h
               /\ epos' = "test"
               /\ nchain' = 0
               /\ UNCHANGED <<ephase, ei, gen_threads>>
       ELSE IF ephase = "caps"
       THEN \* the first loop is over
            /\ ephase' = "gens"
            /\ ei' = 1
            /\ UNCHANGED <<et, epos, nchain, run_queue_hd, gen_threads>>
       ELSE IF ei <= n_generations
       THEN \* t = TSO(g['threads'])
            \E h \in Choices(gen_threads[ei], Addrs) :
               /\ gen_threads' = [gen_threads EXCEPT ![ei] = <<h>>]
               /\ et' = h
               /\ epos' = "test"
               /\ nchain' = 0
               /\ UNCHANGED <<ephase, ei, run_queue_hd>>
       ELSE \* the generator returns
            /\ ephase' = "done"
            /\ epos' = "done"
            /\ UNCHANGED <<ei, et, nchain, run_queue_hd, gen_threads>>
    /\ UNCHANGED <<yielded, n_capabilities, n_generations, rCurrentTSO,
                   tso_link, global_link, tso_state, stackobj, stackmem,
                   symtab, world, zvars, nvars, wvars, cvars, pvars>>

\* while t is not None and not t.is_end(): yield t
EnumTest ==
    /\ cpc = "for"
    /\ epos = "test"
    /\ IF ~is_end(et)
       THEN /\ epos' = "yielded"
            /\ yielded' = IF Len(yielded) < MaxYield
                          THEN Append(yielded, et) ELSE yielded
            /\ nchain' = IF nchain <= MaxChain THEN nchain + 1 ELSE nchain
            /\ UNCHANGED ei
       ELSE /\ epos' = "head"
            /\ ei' = ei + 1
            /\ UNCHANGED <<yielded, nchain>>
    /\ UNCHANGED <<ephase, et, ivars, zvars, nvars, wvars, cvars, pvars>>

\* resumed after the yield: t = t.link(), or t = t.global_link()
EnumLink ==
    /\ cpc = "for"
    /\ epos = "resume"
    /\ IF ephase = "caps"
       THEN \E l \in Choices(tso_link[et], Addrs) :
               /\ tso_link' = [tso_link EXCEPT ![et] = <<l>>]
               /\ et' = l
               /\ UNCHANGED global_link
       ELSE \E l \in Choices(global_link[et], Addrs) :
               /\ global_link' = [global_link EXCEPT ![et] = <<l>>]
               /\ et' = l
               /\ UNCHANGED tso_link
    /\ epos' = "test"
    /\ UNCHANGED <<ephase, ei, yielded, nchain, n_capabilities,
                   n_generations, run_queue_hd, rCurrentTSO, gen_threads,
                   tso_state, stackobj, stackmem, symtab, world, zvars, nvars,
                   wvars, cvars, pvars>>

\* the consumer that only takes the thread and asks for the next
EnumTake ==
    /\ cpc = "for"
    /\ epos = "yielded"
    /\ epos' = "resume"
    /\ UNCHANGED <<ephase, ei, et, yielded, nchain, ivars, zvars, nvars,
                   wvars, cvars, pvars>>

\* the successor of t along the links read so far (a link not read yet
\* is taken to end the chain)
LinkOf(f, t) == IF t = END_TSO_QUEUE \/ f[t] = Unread THEN END_TSO_QUEUE ELSE f[t][1]

RECURSIVE FollowLinks(_, _, _)
FollowLinks(f, t, n) == IF n = 0 THEN t ELSE FollowLinks(f, LinkOf(f, t), n - 1)

\* every chain of f ends at the sentinel
Acyclic(f) == \A t \in TSOs : FollowLinks(f, t, NumTSO) = END_TSO_QUEUE

\* the records on the chain from t
RECURSIVE ChainFrom(_, _, _)
ChainFrom(f, t, n) ==
    IF n = 0 \/ t = END_TSO_QUEUE THEN {}
    ELSE {t} \cup ChainFrom(f, LinkOf(f, t), n - 1)

\* no record has two predecessors among the heads and the links f: the
\* chains are disjoint lists, as the runtime builds them
Disjoint(heads, f) ==
    /\ \A i, j \in DOMAIN heads :
          (i # j /\ heads[i] # Unread /\ heads[j] # Unread
                 /\ heads[i][1] # END_TSO_QUEUE) => heads[i][1] # heads[j][1]
    /\ \A s, t \in TSOs :
          (s # t /\ f[s] # Unread /\ f[t] # Unread
                 /\ f[s][1] # END_TSO_QUEUE) => f[s][1] # f[t][1]
    /\ \A i \in DOMAIN heads : \A t \in TSOs :
          (heads[i] # Unread /\ f[t] # Unread
                 /\ f[t][1] # END_TSO_QUEUE) => heads[i][1] # f[t][1]

\* the image is one the runtime can build: every run queue and every
\* generation's list is a chain ending at the sentinel, and no record is on
\* two run queues or on two generations' lists
WellFormedImage ==
    /\ Acyclic(tso_link) /\ Acyclic(global_link)
    /\ Disjoint(run_queue_hd, tso_link)
    /\ Disjoint(gen_threads, global_link)

HeadOf(cell) == IF cell = Unread THEN END_TSO_QUEUE ELSE cell[1]

ReachableTSOs ==
    UNION {ChainFrom(tso_link, HeadOf(run_queue_hd[i]), NumTSO) : i \in 1..NCaps}
    \cup
    UNION {ChainFrom(global_link, HeadOf(gen_threads[i]), NumTSO) : i \in 1..NGens}

\* C1: in an image whose chains all end at the sentinel, all_tsos yields no
\* record twice (also not one that is on a run queue and on a generation's
\* list), never the sentinel, and, once it has returned, every record
\* reachable from a head.
C1_EachThreadOnce ==
    WellFormedImage =>
        /\ \A j, k \in 1..Len(yielded) : j # k => yielded[j] # yielded[k]
        /\ \A j \in 1..Len(yielded) : yielded[j] # END_TSO_QUEUE
        /\ epos = "done" => \A t \in ReachableTSOs :
                                \E j \in 1..Len(yielded) : yielded[j] = t

\* C4: a chain that never reaches the sentinel is given up after a bounded
\* number of steps (here: the traversal of one chain never yields more than
\* MaxChain threads).
C4_TraversalBounded == nchain <= MaxChain

EStart ==
    /\ ephase = "caps"
    /\ ei = 1
    /\ et = END_TSO_QUEUE
    /\ epos = "head"
    /\ yielded = <<>>
    /\ nchain = 0

EInit ==
    /\ n_capabilities = NCaps
    /\ n_generations = NGens
    /\ world = <<>>
    /\ IFresh
    /\ EStart
    /\ cpc = "for"
    /\ cexc = ""
    /\ WIdle
    /\ PIdle
    /\ ZIdle
    /\ NIdle

ENext == EnumHead \/ EnumTest \/ EnumLink \/ EnumTake

SpecEnum == EInit /\ [][ENext]_vars

(***************************************************************************)
(* Closure.frame_size() and TSO.walk_stack()                               *)
(*                                                                         *)
(* A frame is what Closure(sp) reads at a word address: pc (the info       *)
(* pointer, the frame's first word), type and bitmap (the fields i.type    *)
(* and i.layout.bitmap of the return info table before that code), size    *)
(* (the field StgRetFun.size) and readable (whether gdb can read the       *)
(* target there).                                                          *)
(***************************************************************************)
\* from rts/storage/ClosureTypes.h
RET_BCO == 29
RET_SMALL == 30
RET_BIG == 31
RET_FUN == 32
CATCH_FRAME == 34
STOP_FRAME == 36
ATOMICALLY_FRAME == 55

\* StgRetFun_p.target().sizeof // StgRetFun_p.sizeof: the words of an
\* StgRetFun before its payload (info, size, fun)
StgRetFunWords == 3

\* the result of a call: the exception raised ("" when it returned) and the
\* value returned
Returned(v) == [exc |-> "", size |-> v]
Raised(e) == [exc |-> e, size |-> 0]

\* frame_size without the header word of the small layout
FrameSizeNoHeader(fr) ==
    IF ~fr.readable THEN Raised("MemoryError")
    ELSE IF fr.type = RET_FUN THEN Returned(StgRetFunWords + fr.size)
    ELSE IF fr.type = RET_BIG THEN Raised("NotImplementedError")
    ELSE IF fr.type = RET_BCO THEN Raised("NotImplementedError")
    ELSE Returned(fr.bitmap % 64)

\* frame_size raising for every type that is neither small nor function
FrameSizeStrict(fr) ==
    IF ~fr.readable THEN Raised("MemoryError")
    ELSE IF fr.type = RET_FUN THEN Returned(StgRetFunWords + fr.size)
    ELSE IF fr.type = RET_SMALL THEN Returned(1 + (fr.bitmap % 64))
    ELSE Raised("NotImplementedError")

\* Closure.frame_size(); x & 0x3f is x % 64
frame_size(fr) ==
    IF ~fr.readable THEN Raised("MemoryError")
    ELSE IF fr.type = RET_FUN THEN Returned(StgRetFunWords + fr.size)
    ELSE IF fr.type = RET_BIG THEN Raised("NotImplementedError")
    ELSE IF fr.type = RET_BCO THEN Raised("NotImplementedError")
    ELSE Returned(1 + (fr.bitmap % 64))

\* the frame at address a of t's stack: any of world.frames the first time
FrameChoices(t, a) ==
    IF a \in DOMAIN stackmem[t] THEN {stackmem[t][a]} ELSE world.frames

\* the walk gives up recording beyond this many frames
WalkCap == world.maxwalk

\* walk_stack runs from where it is to its next yield, its end or an
\* exception: the first time it reads the stack object; resumed, it first
\* executes sp += obj.frame_size()
WalkResume ==
    /\ cpc = "walk"
    /\ Len(walked) <= WalkCap
    /\ \E so \in Choices(stackobj[wt], world.stacks) :
        LET fs == IF wpos = "start" THEN Returned(0)
                  ELSE frame_size(stackmem[wt][wsp])
            sp == IF wpos = "start" THEN so.sp ELSE wsp + fs.size
            top == so.stack + so.stack_size
        IN  /\ stackobj' = [stackobj EXCEPT ![wt] = <<so>>]
            /\ sizes' = IF wpos = "start" THEN sizes ELSE Append(sizes, fs)
            /\ IF fs.exc # ""
               THEN /\ cpc' = "except"
                    /\ cexc' = fs.exc
                    /\ UNCHANGED <<wsp, wpos, walked, stackmem>>
               ELSE IF sp < top
               THEN \E fr \in FrameChoices(wt, sp) :
                       /\ stackmem' = [stackmem EXCEPT ![wt] = (sp :> fr) @@ @]
                       /\ walked' = Append(walked, [addr |-> sp, fr |-> fr])
                       /\ wsp' = sp
                       /\ wpos' = "suspended"
                       /\ cpc' = "frame"
                       /\ UNCHANGED cexc
               ELSE /\ wsp' = sp
                    /\ cpc' = "endwalk"
                    /\ UNCHANGED <<wpos, walked, stackmem, cexc>>
    /\ UNCHANGED <<wt, n_capabilities, n_generations, run_queue_hd,
                   rCurrentTSO, gen_threads, tso_link, global_link, tso_state,
                   symtab, world, evars, zvars, nvars, pvars>>

\* the consumer that only takes the frame and asks for the next
WalkTake ==
    /\ cpc = "frame"
    /\ cpc' = "walk"
    /\ UNCHANGED <<cexc, wvars, ivars, evars, zvars, nvars, pvars>>

\* ---- bounded inputs of walk_stack ----
MaxStack == 4

WalkFrames ==
    { [pc |-> 1, type |-> ty, bitmap |-> b, size |-> 0, readable |-> TRUE] :
        ty \in {RET_SMALL, STOP_FRAME, 33}, b \in {0, 65} }
    \cup
    { [pc |-> 1, type |-> RET_FUN, bitmap |-> 0, size |-> n, readable |-> TRUE] :
        n \in {0, 1} }
    \cup
    { [pc |-> 1, type |-> ty, bitmap |-> 0, size |-> 0, readable |-> TRUE] :
        ty \in {RET_BIG, RET_BCO} }
    \cup
    { [pc |-> 1, type |-> RET_SMALL, bitmap |-> 0, size |-> 0, readable |-> FALSE] }

WalkStacks ==
    { [sp |-> s, stack |-> b, stack_size |-> n] :
        s \in 0..(MaxStack + 1), b \in {0, 1}, n \in 0..MaxStack }

WInit ==
    /\ n_capabilities = 0
    /\ n_generations = 0
    /\ world = [stacks |-> WalkStacks, frames |-> WalkFrames,
                maxwalk |-> MaxStack + 2]
    /\ IFresh
    /\ EIdle
    /\ wt = 1
    /\ wsp = 0
    /\ wpos = "start"
    /\ walked = <<>>
    /\ sizes = <<>>
    /\ cpc = "walk"
    /\ cexc = ""
    /\ PIdle
    /\ ZIdle
    /\ NIdle

\* the walked thread's stack object, once read
WStack == stackobj[wt][1]
WTop == WStack.stack + WStack.stack_size

\* the frames walked are readable and of kinds frame_size computes a size for
AllSupported ==
    \A k \in 1..Len(walked) :
        /\ walked[k].fr.readable
        /\ walked[k].fr.type \notin {RET_BIG, RET_BCO}

C7_WalkProgress ==
    (stackobj[wt] # Unread /\ AllSupported) =>
        /\ cpc # "except"
        /\ \A k \in 1..Len(sizes) : sizes[k].size > 0
        /\ \A k \in 1..Len(walked) : walked[k].addr < WTop
        /\ \A k \in 1..Len(walked) :
              walked[k].addr = IF k = 1 THEN WStack.sp
                               ELSE walked[k - 1].addr + sizes[k - 1].size
        /\ (WStack.sp < WTop) => Len(walked) <= WTop - WStack.sp
        /\ (WStack.sp >= WTop) => walked = <<>>
        /\ cpc = "endwalk" =>
              /\ wsp >= WTop
              /\ Len(sizes) = Len(walked)
              /\ wsp = IF walked = <<>> THEN WStack.sp
                       ELSE walked[Len(walked)].addr + sizes[Len(sizes)].size
        /\ cpc = "walk" => ENABLED WalkResume

\* a walk over three frames of sizes 1, 3 and 2 that ended past the end of
\* the stack
C7_Witness ==
    /\ cpc = "endwalk"
    /\ Len(walked) = 3
    /\ AllSupported
    /\ walked[1].addr = 0 /\ walked[2].addr = 1 /\ walked[3].addr = 4
    /\ walked[2].fr.type = RET_FUN
    /\ wsp = 6
    /\ WTop = 5

WNext == WalkResume \/ WalkTake

SpecWalk == WInit /\ [][WNext]_vars

(***************************************************************************)
(* TSO.status(), TSO.running() and Closure.print_frame()                   *)
(***************************************************************************)
\* from rts/Constants.h
ThreadKilled == 3
ThreadComplete == 4
NotBlocked == 0

why_str ==
    (0 :> "not blocked") @@ (1 :> "waiting for MVar") @@
    (2 :> "waiting for black hole") @@ (3 :> "waiting on read") @@
    (4 :> "waiting on write") @@ (5 :> "sleep") @@ (6 :> "blocked on STM") @@
    (7 :> "blocked on proc") @@ (10 :> "blocked on ccall") @@
    (11 :> "blocked on interruptible ccall") @@ (12 :> "throwto") @@
    (13 :> "migrating") @@ (14 :> "waiting for MVar read")

types_str ==
    (RET_BCO :> "bytecode") @@ (RET_SMALL :> "small") @@
    (CATCH_FRAME :> "catch") @@ (STOP_FRAME :> "stop") @@
    (ATOMICALLY_FRAME :> "atomically")

\* "{}".format(n) for n >= 0
RECURSIVE IntStr(_)
IntStr(n) ==
    IF n < 10 THEN CharAt("0123456789", n)
    ELSE IntStr(n \div 10) \o CharAt("0123456789", n % 10)

\* "{:x}".format(n) for n >= 0
RECURSIVE HexStr(_)
HexStr(n) ==
    IF n < 16 THEN CharAt("0123456789abcdef", n)
    ELSE HexStr(n \div 16) \o CharAt("0123456789abcdef", n % 16)

\* s padded with zeros on the left to width characters, width <= 16
ZeroPad(s, width) ==
    IF Len(s) >= width THEN s
    ELSE SubSeq("0000000000000000", 1, width - Len(s)) \o s

\* TSO.status()
status(st) ==
    IF st.what_next = ThreadKilled THEN "killed"
    ELSE IF st.what_next = ThreadComplete THEN "completed"
    ELSE IF st.why_blocked \in DOMAIN why_str THEN why_str[st.why_blocked]
    ELSE "status " \o IntStr(st.why_blocked)

\* TSO.running()
running(st) ==
    IF st.what_next = ThreadKilled THEN FALSE
    ELSE IF st.what_next = ThreadComplete THEN FALSE
    ELSE st.why_blocked = NotBlocked

\* the source file of every symtab of the image
SourceFile == "Main.hs"

\* Closure.lineno()
lineno(dbg) ==
    ((IF dbg.symtab THEN SourceFile ELSE "?") \o ":") \o IntStr(dbg.pcline)

\* the lines Closure.print_frame(compact) prints for a readable frame,
\* name being what self.funcname(pretty=compact) returned
print_frame(fr, dbg, name, compact) ==
    LET typ == fr.type
        func == IF name = "" THEN "0x" \o HexStr(fr.pc) ELSE name
    IN  IF compact
        THEN IF dbg.symtab
             THEN << "  0x" \o ZeroPad(HexStr(fr.pc), 16) \o " in " \o func
                       \o " at " \o SourceFile \o ":" \o IntStr(dbg.pcline) >>
             ELSE << "  0x" \o ZeroPad(HexStr(fr.pc), 16) \o " in " \o func >>
        ELSE << "  " \o func \o " (0x" \o HexStr(fr.pc) \o ", type "
                    \o (IF typ \in DOMAIN types_str THEN types_str[typ]
                        ELSE IntStr(typ)) \o ")",
                "    " \o lineno(dbg) >>

\* gdb's message for a failed read of the target
MemoryErrorAt(a) == "Cannot access memory at address 0x" \o HexStr(a)

\* gdb's debug information for code address pc: any of world.dbgs the first
\* time it is asked
DbgChoices(pc) ==
    IF pc \in DOMAIN symtab THEN {symtab[pc]} ELSE world.dbgs

(***************************************************************************)
(* InfoTsos.invoke: the command "info tsos"                                *)
(***************************************************************************)
\* the output is followed up to this many lines
MaxOut == 8

\* for t in all_tsos(): the body up to the inner for statement
ListTake ==
    /\ cpc = "for"
    /\ epos = "yielded"
    /\ Len(out) < MaxOut
    /\ epos' = "resume"
    /\ \E st \in Choices(tso_state[et], world.states) :
          /\ tso_state' = [tso_state EXCEPT ![et] = <<st>>]
          /\ IF args.only_running /\ ~running(st)
             THEN \* continue
                  UNCHANGED <<out, wvars, cpc>>
             ELSE /\ out' = Append(out, "TSO " \o IntStr(et) \o " (" \o status(st) \o ")")
                  /\ wt' = et
                  /\ wpos' = "start"
                  /\ walked' = <<>>
                  /\ sizes' = <<>>
                  /\ cpc' = "walk"
                  /\ UNCHANGED wsp
    /\ UNCHANGED <<cexc, args, pstack, prev, funcname_cache, ninvoke, seen,
                   lastpc, tdone, ephase, ei, et, yielded, nchain,
                   n_capabilities, n_generations, run_queue_hd, rCurrentTSO,
                   gen_threads, tso_link, global_link, stackobj, stackmem,
                   symtab, world, zvars, nvars>>

\* for obj in t.walk_stack(): obj.print_frame(compact=compact)
ListFrame ==
    /\ cpc = "frame"
    /\ LET fr == stackmem[wt][wsp]
       IN  IF ~fr.readable
           THEN \* self.info() cannot read the target
                /\ cpc' = "except"
                /\ cexc' = "MemoryError"
                /\ UNCHANGED <<out, symtab>>
           ELSE \E dbg \in DbgChoices(fr.pc) :
                \E name \in {Funcname(dbg, args.compact)} :
                   /\ symtab' = (fr.pc :> dbg) @@ symtab
                   /\ out' = out \o print_frame(fr, dbg, name, args.compact)
                   /\ cpc' = "walk"
                   /\ UNCHANGED cexc
    /\ UNCHANGED <<args, pstack, prev, funcname_cache, ninvoke, seen, lastpc,
                   tdone, wvars, evars, n_capabilities, n_generations,
                   run_queue_hd, rCurrentTSO, gen_threads, tso_link,
                   global_link, tso_state, stackobj, stackmem, world,
                   zvars, nvars>>

\* the walk is over: print()
ListEndWalk ==
    /\ cpc = "endwalk"
    /\ out' = Append(out, "")
    /\ cpc' = "for"
    /\ UNCHANGED <<cexc, args, pstack, prev, funcname_cache, ninvoke, seen,
                   lastpc, tdone, wvars, evars, ivars, zvars, nvars>>

\* an exception of the walk or of print_frame: invoke has no handler, the
\* exception leaves it
ListRaise ==
    /\ cpc = "except"
    /\ cpc' = "raised"
    /\ UNCHANGED <<cexc, pvars, wvars, evars, ivars, zvars, nvars>>

\* all_tsos() is exhausted: invoke returns
ListDone ==
    /\ cpc = "for"
    /\ epos = "done"
    /\ cpc' = "done"
    /\ UNCHANGED <<cexc, pvars, wvars, evars, ivars, zvars, nvars>>

\* ---- bounded inputs of info tsos ----
NamedDbg(fn) ==
    [block |-> "some", scopes |-> <<fn>>, infosym |-> Raises,
     symtab |-> TRUE, pcline |-> 5, linetable |-> <<>>]
UnknownDbg ==
    [block |-> "none", scopes |-> <<None>>, infosym |-> "No symbol matches 0x1.",
     symtab |-> FALSE, pcline |-> 0, linetable |-> <<>>]

SmallFrame(pc) ==
    [pc |-> pc, type |-> RET_SMALL, bitmap |-> 0, size |-> 0, readable |-> TRUE]
BigFrame(pc) ==
    [pc |-> pc, type |-> RET_BIG, bitmap |-> 0, size |-> 0, readable |-> TRUE]
UnreadableFrame ==
    [pc |-> 0, type |-> 0, bitmap |-> 0, size |-> 0, readable |-> FALSE]

ListWorld ==
    [stacks |-> {[sp |-> 0, stack |-> 0, stack_size |-> n] : n \in 1..2},
     frames |-> {SmallFrame(1), BigFrame(2), UnreadableFrame},
     maxwalk |-> 3,
     dbgs |-> {NamedDbg("base_GHCziBase_map_info"), UnknownDbg},
     states |-> {[what_next |-> 1, why_blocked |-> 0],
                 [what_next |-> 3, why_blocked |-> 0]}]

\* one capability and one generation: the threads of the run queue, then
\* those of the generation's list
LInit ==
    /\ n_capabilities = 1
    /\ n_generations = 1
    /\ world = ListWorld
    /\ IFresh
    /\ EStart
    /\ WIdle
    /\ cpc = "for"
    /\ cexc = ""
    /\ args \in {[only_running |-> r, compact |-> c] : r \in BOOLEAN, c \in BOOLEAN}
    /\ out = <<>>
    /\ pstack = <<>>
    /\ prev = "<None>"
    /\ funcname_cache = <<>>
    /\ ninvoke = 1
    /\ seen = <<>>
    /\ lastpc = 0
    /\ tdone = ""
    /\ ZIdle
    /\ NIdle

LNext ==
    \/ EnumHead \/ EnumTest \/ EnumLink
    \/ ListTake \/ WalkResume \/ ListFrame \/ ListEndWalk \/ ListRaise \/ ListDone

SpecList == LInit /\ [][LNext]_vars

\* C2: info tsos completes whatever a thread's walk does: no exception of a
\* walk or of print_frame leaves invoke.
C2_ListCompletes == cpc # "raised"

(***************************************************************************)
(* running_tsos() and InfoTsoProfile.invoke: the command "info tsoprofile" *)
(***************************************************************************)
NULL == 0

\* running_tsos(), from its start or from its yield, to its next yield or
\* its end
RunningNext ==
    /\ cpc = "for"
    /\ epos \in {"head", "resume"}
    /\ IF ei <= n_capabilities
       THEN \E p \in Choices(rCurrentTSO[ei], TSOs \cup {NULL}) :
               /\ rCurrentTSO' = [rCurrentTSO EXCEPT ![ei] = <<p>>]
               /\ ei' = ei + 1
               /\ IF p = NULL
                  THEN \* if not tso_p: continue
                       /\ epos' = "head"
                       /\ UNCHANGED <<et, yielded>>
                  ELSE /\ epos' = "yielded"
                       /\ et' = p
                       /\ yielded' = Append(yielded, p)
               /\ UNCHANGED ephase
       ELSE /\ epos' = "done"
            /\ ephase' = "done"
            /\ UNCHANGED <<ei, et, yielded, rCurrentTSO>>
    /\ UNCHANGED <<nchain, n_capabilities, n_generations, run_queue_hd,
                   gen_threads, tso_link, global_link, tso_state, stackobj,
                   stackmem, symtab, world, wvars, cvars, pvars, zvars, nvars>>

\* for t in running_tsos(): the try block is entered, stack = [], prev = None
ProfTake ==
    /\ cpc = "for"
    /\ epos = "yielded"
    /\ epos' = "resume"
    /\ pstack' = <<>>
    /\ prev' = None
    /\ seen' = <<>>
    /\ tdone' = ""
    /\ wt' = et
    /\ wpos' = "start"
    /\ walked' = <<>>
    /\ sizes' = <<>>
    /\ cpc' = "walk"
    /\ UNCHANGED <<wsp, cexc, args, out, funcname_cache, ninvoke, lastpc,
                   ephase, ei, et, yielded, nchain, ivars, zvars, nvars>>

\* a name equal to the previous one is skipped whether or not -u is given
UniqSkipAlways(uniq, f, p) == f = p

\* if uniq and f == prev: continue
UniqSkip(uniq, f, p) == uniq /\ f = p

\* if not verbose: if f == "??" or f.startswith("stg_"): continue
VerboseSkip(verbose, f) == ~verbose /\ (f = "??" \/ StartsWith(f, "stg_"))

\* the body of the inner for: f = obj.cached_funcname() and the two tests.
\* gdb's debug information for the frame's code address is fixed here even
\* when the cache answers and gdb is not asked.
ProfFrame ==
    /\ cpc = "frame"
    /\ LET fr == stackmem[wt][wsp]
       IN  IF ~fr.readable
           THEN \* self.pc() cannot read the target
                /\ cpc' = "except"
                /\ cexc' = "MemoryError"
                /\ UNCHANGED <<symtab, funcname_cache, pstack, prev, seen, lastpc>>
           ELSE \E dbg \in DbgChoices(fr.pc) :
                \E f \in { IF fr.pc \in DOMAIN funcname_cache
                           THEN funcname_cache[fr.pc]
                           ELSE Funcname(dbg, TRUE) } :
                   /\ symtab' = (fr.pc :> dbg) @@ symtab
                   /\ funcname_cache' = (fr.pc :> f) @@ funcname_cache
                   /\ seen' = Append(seen, f)
                   /\ lastpc' = fr.pc
                   /\ IF VerboseSkip(args.verbose, f) \/ UniqSkip(args.uniq, f, prev)
                      THEN UNCHANGED <<pstack, prev>>
                      ELSE /\ pstack' = Append(pstack, f)
                           /\ prev' = f
                   /\ cpc' = "walk"
                   /\ UNCHANGED cexc
    /\ UNCHANGED <<args, out, ninvoke, tdone, wvars, evars, n_capabilities,
                   n_generations, run_queue_hd, rCurrentTSO, gen_threads,
                   tso_link, global_link, tso_state, stackobj, stackmem,
                   world, zvars, nvars>>

\* sep.join(q)
RECURSIVE Join(_, _)
Join(sep, q) ==
    IF q = <<>> THEN ""
    ELSE IF Len(q) = 1 THEN q[1]
    ELSE (q[1] \o sep) \o Join(sep, Tail(q))

\* q.reverse()
Reverse(q) == [k \in 1..Len(q) |-> q[Len(q) + 1 - k]]

\* the walk is over: stack.reverse(); print("PROFILE;" + ";".join(stack))
ProfEndWalk ==
    /\ cpc = "endwalk"
    /\ pstack' = Reverse(pstack)
    /\ out' = Append(out, "PROFILE;" \o Join(";", Reverse(pstack)))
    /\ tdone' = "profile"
    /\ cpc' = "for"
    /\ UNCHANGED <<cexc, args, prev, funcname_cache, ninvoke, seen, lastpc,
                   wvars, evars, ivars, zvars, nvars>>

\* except gdb.MemoryError as err
ProfCatches(e) == e = "MemoryError"

\* an exception in the try block: except gdb.MemoryError prints it and the
\* loop goes on; any other exception leaves invoke
ProfExcept ==
    /\ cpc = "except"
    /\ IF ProfCatches(cexc)
       THEN /\ out' = Append(out, "error: " \o MemoryErrorAt(wsp))
            /\ tdone' = "error"
            /\ cexc' = ""
            /\ cpc' = "for"
       ELSE /\ cpc' = "raised"
            /\ UNCHANGED <<out, tdone, cexc>>
    /\ UNCHANGED <<args, pstack, prev, funcname_cache, ninvoke, seen, lastpc,
                   wvars, evars, ivars, zvars, nvars>>

\* running_tsos() is exhausted: invoke returns
ProfDone ==
    /\ cpc = "for"
    /\ epos = "done"
    /\ cpc' = "done"
    /\ UNCHANGED <<cexc, pvars, wvars, evars, ivars, zvars, nvars>>

ProfArgs == {[uniq |-> u, verbose |-> v] : u \in BOOLEAN, v \in BOOLEAN}

\* the state in which invoke starts, but for the image and the class
\* attribute funcname_cache
ProfStart ==
    /\ ephase = "running"
    /\ ei = 1
    /\ et = END_TSO_QUEUE
    /\ epos = "head"
    /\ yielded = <<>>
    /\ nchain = 0
    /\ WIdle
    /\ cpc = "for"
    /\ cexc = ""
    /\ args \in ProfArgs
    /\ out = <<>>
    /\ pstack = <<>>
    /\ prev = None
    /\ seen = <<>>
    /\ lastpc = 0
    /\ tdone = ""

\* the command is given again after the previous invocation ended; the
\* target may have run in between, so nothing read from it before is known
\* to hold still.  funcname_cache is an attribute of the class Closure and
\* stays.
ProfInvokeAgain ==
    /\ cpc \in {"done", "raised"}
    /\ ninvoke < world.maxinvoke
    /\ ninvoke' = ninvoke + 1
    /\ run_queue_hd' = [i \in 1..NCaps |-> Unread]
    /\ rCurrentTSO' = [i \in 1..NCaps |-> Unread]
    /\ gen_threads' = [i \in 1..NGens |-> Unread]
    /\ tso_link' = [t \in TSOs |-> Unread]
    /\ global_link' = [t \in TSOs |-> Unread]
    /\ tso_state' = [t \in TSOs |-> Unread]
    /\ stackobj' = [t \in TSOs \cup {END_TSO_QUEUE} |-> Unread]
    /\ stackmem' = [t \in TSOs \cup {END_TSO_QUEUE} |-> <<>>]
    /\ symtab' = <<>>
    /\ ephase' = "running"
    /\ ei' = 1
    /\ et' = END_TSO_QUEUE
    /\ epos' = "head"
    /\ yielded' = <<>>
    /\ wt' = END_TSO_QUEUE
    /\ wsp' = 0
    /\ wpos' = "start"
    /\ walked' = <<>>
    /\ sizes' = <<>>
    /\ cpc' = "for"
    /\ cexc' = ""
    /\ args' \in ProfArgs
    /\ out' = <<>>
    /\ pstack' = <<>>
    /\ prev' = None
    /\ seen' = <<>>
    /\ lastpc' = 0
    /\ tdone' = ""
    /\ UNCHANGED <<funcname_cache, nchain, n_capabilities, n_generations,
                   world, zvars, nvars>>

\* ---- bounded inputs of info tsoprofile ----
MaxInvoke == 2

ProfWorld ==
    [stacks |-> {[sp |-> 0, stack |-> 0, stack_size |-> n] : n \in 1..2},
     frames |-> {SmallFrame(1), BigFrame(2), UnreadableFrame},
     maxwalk |-> 3,
     dbgs |-> {NamedDbg("A_info"), NamedDbg("B_info")},
     states |-> {},
     maxinvoke |-> MaxInvoke]

PInit ==
    /\ n_capabilities = NCaps
    /\ n_generations = NGens
    /\ world = ProfWorld
    /\ IFresh
    /\ ProfStart
    /\ funcname_cache = <<>>
    /\ ninvoke = 1
    /\ ZIdle
    /\ NIdle

PNext ==
    \/ RunningNext \/ ProfTake \/ WalkResume \/ ProfFrame \/ ProfEndWalk
    \/ ProfExcept \/ ProfDone \/ ProfInvokeAgain

SpecProfile == PInit /\ [][PNext]_vars

\* C3: in info tsoprofile a failing walk, whichever way it fails, costs only
\* its own thread: no exception leaves invoke, and when invoke returns every
\* running thread has its line, a PROFILE line or an error line.
C3_FailureIsolated ==
    /\ cpc # "raised"
    /\ cpc = "done" => Len(out) = Len(yielded)

\* C6: every name cached_funcname returns is the name funcname(pretty=True)
\* computes from gdb's present answer for that address: no entry cached by an
\* earlier invocation is used.
C6_CachePerInvocation ==
    (cpc = "walk" /\ seen # <<>>) =>
        seen[Len(seen)] = Funcname(symtab[lastpc], TRUE)

\* ---- bounded inputs of the profile line ----
FormatDepth == 4

FormatWorld ==
    [stacks |-> {[sp |-> 0, stack |-> 0, stack_size |-> n] : n \in 0..FormatDepth},
     frames |-> {SmallFrame(1), SmallFrame(2), UnreadableFrame},
     maxwalk |-> FormatDepth + 1,
     dbgs |-> {NamedDbg("A_info"), NamedDbg("B_info"),
               NamedDbg("stg_upd_frame_info"), UnknownDbg},
     states |-> {},
     maxinvoke |-> 1]

\* one capability, one invocation
FInit ==
    /\ n_capabilities = 1
    /\ n_generations = 1
    /\ world = FormatWorld
    /\ IFresh
    /\ ProfStart
    /\ funcname_cache = <<>>
    /\ ninvoke = 1
    /\ ZIdle
    /\ NIdle

FNext ==
    \/ RunningNext \/ ProfTake \/ WalkResume \/ ProfFrame \/ ProfEndWalk
    \/ ProfExcept \/ ProfDone

SpecFormat == FInit /\ [][FNext]_vars

\* the names of q that the verbosity toggle retains
RECURSIVE Retained(_, _)
Retained(verbose, q) ==
    IF q = <<>> THEN <<>>
    ELSE IF ~verbose /\ (Head(q) = "??" \/ StartsWith(Head(q), "stg_"))
    THEN Retained(verbose, Tail(q))
    ELSE <<Head(q)>> \o Retained(verbose, Tail(q))

\* q with every maximal run of adjacent equal names collapsed to one name
RECURSIVE Collapsed(_)
Collapsed(q) ==
    IF Len(q) <= 1 THEN q
    ELSE IF q[Len(q)] = q[Len(q) - 1] THEN Collapsed(SubSeq(q, 1, Len(q) - 1))
    ELSE Append(Collapsed(SubSeq(q, 1, Len(q) - 1)), q[Len(q)])

\* the names of q from last to first, each preceded by c
RECURSIVE Backwards(_, _)
Backwards(c, q) ==
    IF q = <<>> THEN ""
    ELSE (Backwards(c, Tail(q)) \o c) \o Head(q)

\* the profile line for the names seen, top of stack first
ProfileLineOf(uniq, verbose, names) ==
    LET kept == Retained(verbose, names)
        line == Backwards(";", IF uniq THEN Collapsed(kept) ELSE kept)
    IN  IF line = "" THEN "PROFILE;" ELSE "PROFILE" \o line

\* C9 as stated: the line printed for a thread is "PROFILE;" and the retained
\* names in reverse walk order; with -u every maximal run of adjacent equal
\* names is one name and a repeat that is not adjacent is kept, without -u
\* every retained name is printed; the names A, A, B, A walked from the top
\* give PROFILE;A;B;A with -u and PROFILE;A;A;B;A without.
C9_ProfileLineAsStated ==
    tdone = "profile" =>
        /\ out[Len(out)] = ProfileLineOf(args.uniq, args.verbose, seen)
        /\ args.uniq => \A k \in 1..(Len(pstack) - 1) : pstack[k] # pstack[k + 1]
        /\ (seen = <<"A", "A", "B", "A">> /\ args.uniq)
              => out[Len(out)] = "PROFILE;A;B;A"
        /\ (seen = <<"A", "A", "B", "A">> /\ ~args.uniq)
              => out[Len(out)] = "PROFILE;A;A;B;A"

\* C9: the line printed for a thread is "PROFILE;" and the retained names in
\* reverse walk order; with -u every maximal run of adjacent equal names is
\* one name and a repeat that is not adjacent is kept, without -u every
\* retained name is printed; the names A, A, B, A walked from the top give
\* PROFILE;A;B;A with -u and, reversed, PROFILE;A;B;A;A without.
C9_ProfileLineReversed ==
    tdone = "profile" =>
        /\ out[Len(out)] = ProfileLineOf(args.uniq, args.verbose, seen)
        /\ args.uniq => \A k \in 1..(Len(pstack) - 1) : pstack[k] # pstack[k + 1]
        /\ (seen = <<"A", "A", "B", "A">> /\ args.uniq)
              => out[Len(out)] = "PROFILE;A;B;A"
        /\ (seen = <<"A", "A", "B", "A">> /\ ~args.uniq)
              => out[Len(out)] = "PROFILE;A;B;A;A"

\* the names A, A, B, A have been printed without -u, and before that
\* nothing
C9_Witness ==
    /\ tdone = "profile"
    /\ seen = <<"A", "A", "B", "A">>
    /\ ~args.uniq
    /\ out = <<"PROFILE;A;B;A;A">>

\* ---- bounded inputs of zdecode ----
MaxZLen == 4
ZAlphabet == {"z", "Z", "d", "L", "q"}

RECURSIVE StringsUpTo(_, _)
StringsUpTo(alphabet, n) ==
    IF n = 0 THEN {""}
    ELSE LET shorter == StringsUpTo(alphabet, n - 1)
         IN  shorter \cup {s \o c : s \in shorter, c \in alphabet}

ZInit ==
    /\ zin \in StringsUpTo(ZAlphabet, MaxZLen)
    /\ zs = zin
    /\ zres = ""
    /\ zpc = "loop"
    /\ ziter = 0
    /\ zret = ""
    /\ NIdle
    /\ IIdle
    /\ EIdle
    /\ WIdle
    /\ CIdle
    /\ PIdle

ZNext == ZdecodeStep

SpecZ == ZInit /\ [][ZNext]_vars

\* The reference decoder: character by character, left to right.
RECURSIVE RefDecode(_)
RefDecode(s) ==
    IF s = "" THEN ""
    ELSE IF Head(s) \in {"z", "Z"}
         THEN IF Len(s) = 1 THEN s
              ELSE LET tok == SubSeq(s, 1, 2)
                   IN  (IF tok \in DOMAIN ztrans THEN ztrans[tok] ELSE tok)
                           \o RefDecode(SubSeq(s, 3, Len(s)))
         ELSE Head(s) \o RefDecode(Tail(s))

\* C8: zdecode always returns, and what it returns is the reference
\* left-to-right decoding of its input; while it runs, the decoded prefix
\* followed by the decoding of the rest is the decoding of the whole, every
\* iteration has shortened the rest, and an input without 'z' or 'Z' comes
\* back unchanged.
C8_ZdecodeIsReference ==
    /\ zpc = "loop" => zres \o RefDecode(zs) = RefDecode(zin)
    /\ Len(zs) + ziter <= Len(zin)
    /\ zpc = "returned" =>
          /\ zret = RefDecode(zin)
          /\ (~Contains(zin, "z") /\ ~Contains(zin, "Z")) => zret = zin
    /\ zpc = "loop" => ENABLED ZdecodeStep

\* a run that decoded a recognized token, passed an unrecognized one through
\* and met a lone lead character at the very end
C8_Witness ==
    /\ zpc = "returned"
    /\ zin = "qzdZ"
    /\ zret = "q$Z"
    /\ ziter = 2
====
